---- MODULE Spec2Model ----
(***************************************************************************)
(* Model of the monitoring facade in src/app.py: the upload-metrics        *)
(* aggregator (get_immich_metrics), the CDN-metrics aggregator             *)
(* (get_cloudflare_metrics) and the four HTTP routes.                      *)
(*                                                                         *)
(* Python dicts are records (functions with a string domain); a key is     *)
(* present iff it is in DOMAIN.  Python None / SQL NULL is the empty       *)
(* tuple <<>> and a non-null value v is <<v>> wherever a value is          *)
(* nullable.  Times are integer seconds.  A Python float is a pair of an   *)
(* integer significand of at most 53 bits and a binary exponent, and the   *)
(* result of round(x, n) is an integer in units of the last kept digit     *)
(* (tenths or hundredths).                                                 *)
(***************************************************************************)
EXTENDS Integers, Sequences, FiniteSets, TLC

VARIABLES
    pc,            \* position of the request being served
    route,         \* route of the request being served
    assets,        \* table asset: a multiset of rows (row -> multiplicity)
    users,         \* table "user": sequence of isAdmin flags
    cfg,           \* CF_API_KEY / CF_ZONE_ID as read from the environment
    openConns,     \* database connections opened and not closed
    seen1,         \* asset rows visible to the first query
    seen2,         \* asset rows visible to the second query
    upload_stats,  \* row fetched by the first query
    user_stats,    \* row fetched by the second query
    all_users,     \* row fetched by the third query
    pyNow,         \* datetime.now() read by the derivation
    immichOut,     \* outcome of get_immich_metrics
    postReply,     \* outcome of requests.post (analytics)
    zoneReply,     \* outcome of requests.get (zone info)
    metrics,       \* summed hourly buckets
    postCalls,     \* analytics POSTs issued by this invocation
    getCalls,      \* zone-info GETs issued by this invocation
    cfOut,         \* outcome of get_cloudflare_metrics
    httpResponse   \* response of the route

vars == <<pc, route, assets, users, cfg, openConns, seen1, seen2,
          upload_stats, user_stats, all_users, pyNow, immichOut,
          postReply, zoneReply, metrics, postCalls, getCalls, cfOut,
          httpResponse>>

----------------------------------------------------------------------------
(* Bounds of the model *)

MaxAssets == 2
MaxBuckets == 2

(* Program constants *)

OneHour == 3600
OneDay == 86400
SevenDays == 604800
ThirtyDays == 2592000
ActiveMinutes == 120
HoursPerDay == 24
SecondsPerMinute == 60
GiB == 1073741824
Percent == 100
DoubleBits == 53

----------------------------------------------------------------------------
(* Python / SQL value helpers *)

None == <<>>
Some(v) == <<v>>
IsNone(x) == x = <<>>
Val(x) == x[1]

NoDict == <<>>
HasKey(d, k) == d # NoDict /\ k \in DOMAIN d
DictGet(d, k, default) == IF HasKey(d, k) THEN d[k] ELSE default

Return(v) == [kind |-> "return", value |-> v]
Raise(e) == [kind |-> "raise", exc |-> e]
Pending == [kind |-> "pending"]

\* int(x / d): truncation toward zero
TruncDiv(x, d) == IF x >= 0 THEN x \div d ELSE -((-x) \div d)

(* Natural numbers of any size: sequences of bits, lowest bit first, no
   leading zero bit; zero is the empty sequence.  The operators recurse to a
   depth logarithmic in the number of bits. *)

\* 2^n for 0 <= n <= 30, the powers of two an int of the model holds
Pow2(n) == 2^n
Limb == Pow2(15)
MinOf(S) == CHOOSE x \in S : \A y \in S : x <= y
TopOf(S) == CHOOSE x \in S : \A y \in S : y <= x

\* number of bits of an int n >= 0
BitLen(n) == Cardinality({i \in 0..30 : Pow2(i) <= n})

BFromInt(n) == [i \in 1..BitLen(n) |-> (n \div Pow2(i - 1)) % 2]

\* the int made of the bits lo..hi of b (at most 31 of them)
RECURSIVE BVal(_, _, _)
BVal(b, lo, hi) ==
    IF lo > hi THEN 0
    ELSE IF lo = hi THEN b[lo]
    ELSE LET mid == (lo + hi) \div 2
         IN  BVal(b, lo, mid) + Pow2(mid + 1 - lo) * BVal(b, mid + 1, hi)

BToInt(b) == BVal(b, 1, Len(b))

BNorm(b) ==
    LET ones == {i \in 1..Len(b) : b[i] = 1}
    IN  IF ones = {} THEN <<>> ELSE SubSeq(b, 1, TopOf(ones))

\* b as digits in base Limb, lowest first, and back
Limbs(b) ==
    [j \in 1..((Len(b) + 14) \div 15) |->
        BVal(b, 15 * (j - 1) + 1, IF 15 * j < Len(b) THEN 15 * j ELSE Len(b))]
FromLimbs(ls) ==
    BNorm([i \in 1..(15 * Len(ls)) |-> (ls[(i - 1) \div 15 + 1] \div Pow2((i - 1) % 15)) % 2])

RECURSIVE MulLimbs(_, _, _)
MulLimbs(ls, k, carry) ==
    IF Len(ls) = 0 THEN IF carry = 0 THEN <<>> ELSE <<carry>>
    ELSE LET t == Head(ls) * k + carry
         IN  <<t % Limb>> \o MulLimbs(Tail(ls), k, t \div Limb)

\* b * k for 0 <= k < Limb, and b + 1
BMulSmall(b, k) == FromLimbs(MulLimbs(Limbs(b), k, 0))
BInc(b) ==
    LET zeros == {i \in 1..Len(b) : b[i] = 0}
        j == IF zeros = {} THEN Len(b) + 1 ELSE MinOf(zeros)
    IN  [i \in 1..(IF j > Len(b) THEN j ELSE Len(b)) |->
            IF i < j THEN 0 ELSE IF i = j THEN 1 ELSE b[i]]

\* b * 2^n
BShl(b, n) == IF Len(b) = 0 THEN b ELSE [i \in 1..n |-> 0] \o b

\* (b + f) / 2^n rounded to an integer, ties to even, where 0 <= f < 1 and
\* sticky tells whether f > 0 (n >= 1 when sticky)
BRoundShr(b, n, sticky) ==
    IF n = 0 THEN b
    ELSE IF Len(b) < n THEN <<>>
    ELSE LET high == SubSeq(b, n + 1, Len(b))
             guard == b[n]
             below == sticky \/ \E i \in 1..(n - 1) : b[i] = 1
             odd == Len(high) > 0 /\ high[1] = 1
         IN  IF guard = 1 /\ (below \/ odd) THEN BInc(high) ELSE high

(* IEEE 754 doubles as Python computes them: [m, e] stands for m * 2^e *)

\* (b + f) * 2^e rounded to DoubleBits significant bits, ties to even
FRound(b, e, sticky) ==
    IF Len(b) <= DoubleBits THEN [m |-> b, e |-> e]
    ELSE LET d == Len(b) - DoubleBits
         IN  [m |-> BRoundShr(b, d, sticky), e |-> e + d]

\* one step of the long division by a: the next w quotient bits, until the
\* quotient q (k of its bits fractional) has more bits than a double keeps;
\* r is the remainder, and r * 2^w fits an int
DivStep(s, a, w) ==
    IF Len(s.q) > DoubleBits THEN s
    ELSE LET t == s.r * Pow2(w)
             digit == t \div a
         IN  [q |-> BNorm([i \in 1..w |-> (digit \div Pow2(i - 1)) % 2] \o s.q),
              r |-> t % a,
              k |-> s.k + w]

\* n steps: the first half of them, then the rest
RECURSIVE DivSteps(_, _, _, _)
DivSteps(s, a, w, n) ==
    IF n = 0 THEN s
    ELSE IF n = 1 THEN DivStep(s, a, w)
    ELSE LET half == DivSteps(s, a, w, n \div 2)
         IN  IF half.k >= 0 THEN DivSteps(half, a, w, n - n \div 2) ELSE half

\* the number of times 2 divides a
Twos(a) == Cardinality({j \in 1..30 : a % Pow2(j) = 0})

\* c / a for ints c >= 0, 0 < a <= 2^30 (true division, correctly rounded):
\* the division by the odd part of a, scaled by the power of two in a
FDiv(c, a) ==
    IF c = 0 THEN [m |-> <<>>, e |-> 0]
    ELSE LET j == Twos(a)
             odd == a \div Pow2(j)
             room == 31 - BitLen(odd - 1)
             w == IF room > 30 THEN 30 ELSE room
             d == DivSteps([q |-> BFromInt(c \div odd), r |-> c % odd, k |-> 0],
                           odd, w, (2 * DoubleBits) \div w + 1)
         IN  FRound(d.q, 0 - d.k - j, d.r # 0)

\* x * k for a float x and a small int k
FMulSmall(x, k) ==
    IF Len(x.m) = 0 THEN x ELSE FRound(BMulSmall(x.m, k), x.e, FALSE)

\* round(x, ndigits) with scale = 10^ndigits, in units of 1/scale: the
\* exact value of the double, rounded half to even
PyRound(x, scale) ==
    LET p == BMulSmall(x.m, scale)
    IN  IF Len(x.m) = 0 THEN 0
        ELSE IF x.e >= 0 THEN BToInt(BShl(p, x.e))
        ELSE BToInt(BRoundShr(p, 0 - x.e, FALSE))

RECURSIVE SumOver(_, _)
SumOver(S, f) ==
    IF S = {} THEN 0
    ELSE LET x == CHOOSE y \in S : TRUE
         IN  f[x] + SumOver(S \ {x}, f)

RECURSIVE MaxOf(_)
MaxOf(S) ==
    LET x == CHOOSE y \in S : TRUE
    IN  IF S = {x} THEN x
        ELSE LET m == MaxOf(S \ {x}) IN IF x > m THEN x ELSE m

----------------------------------------------------------------------------
(* The database *)

NowT == 40 * OneDay                 \* NOW() of the aggregator's transaction
DeleteTime == NowT - 1

CreatedChoices == { NowT - OneDay,                      \* exactly 24h old
                    NowT - (ActiveMinutes * 60 - 1),    \* 119m59s old
                    NowT + 600 }                        \* dated in the future
Owners == {"u1", "u2"}
AssetRows == [createdAt : CreatedChoices, deletedAt : {None, Some(DeleteTime)},
              ownerId : Owners]
LiveRows == {r \in AssetRows : IsNone(r.deletedAt)}

EmptyTable == [r \in AssetRows |-> 0]
TableSize(t) == SumOver(AssetRows, t)

UserTables == { <<>>, <<TRUE, FALSE>> }

\* the asset table when the service starts
RecentRow == [createdAt |-> NowT - (ActiveMinutes * 60 - 1), deletedAt |-> None,
              ownerId |-> "u1"]
InitialTables == { EmptyTable, [EmptyTable EXCEPT ![RecentRow] = 1] }

\* COUNT(*) of the rows of t satisfying P, as a set of row kinds
CountRows(t, S) == SumOver(S, t)

\* first query, lines 47-58
Query1(t, now) ==
    LET live == {r \in LiveRows : t[r] > 0}
        within(w) == {r \in live : r.createdAt > now - w}
    IN  [ total_assets |-> CountRows(t, live),
          last_1h  |-> CountRows(t, within(OneHour)),
          last_24h |-> CountRows(t, within(OneDay)),
          last_7d  |-> CountRows(t, within(SevenDays)),
          last_30d |-> CountRows(t, within(ThirtyDays)),
          last_upload |-> IF live = {} THEN None
                          ELSE Some(MaxOf({r.createdAt : r \in live})) ]

\* variant: soft-deleted rows are not filtered out
Query2_CountsDeleted(t, now) ==
    LET rows == {r \in AssetRows : t[r] > 0 /\ r.createdAt > now - OneDay}
    IN  [ active_users_24h |-> Cardinality({r.ownerId : r \in rows}) ]

\* second query, lines 61-68
Query2(t, now) ==
    LET rows == {r \in AssetRows : /\ t[r] > 0
                                   /\ r.createdAt > now - OneDay
                                   /\ IsNone(r.deletedAt)}
    IN  [ active_users_24h |-> Cardinality({r.ownerId : r \in rows}) ]

\* third query, lines 71-77
Query3(u) ==
    [ total_users |-> Len(u),
      admin_users |-> IF Len(u) = 0 THEN None
                      ELSE Some(Cardinality({i \in 1..Len(u) : u[i]})) ]

\* variant: the activity threshold is inclusive
ImmichResult_Inclusive(us, usr, au, pynow) ==
    LET last_upload == us.last_upload
        minutes_since_upload ==
            IF IsNone(last_upload) THEN None
            ELSE Some(TruncDiv(pynow - Val(last_upload), SecondsPerMinute))
        is_active == /\ ~IsNone(minutes_since_upload)
                     /\ Val(minutes_since_upload) <= ActiveMinutes
    IN  [ total_assets |-> us.total_assets,
          uploads |-> [ last_1h |-> us.last_1h,
                        last_24h |-> us.last_24h,
                        last_7d |-> us.last_7d,
                        last_30d |-> us.last_30d,
                        rate_per_hour |-> PyRound(FDiv(us.last_24h, HoursPerDay), 10) ],
          users |-> [ total |-> au.total_users,
                      admins |-> au.admin_users,
                      active_24h |-> usr.active_users_24h ],
          last_upload |-> [ timestamp |-> IF IsNone(last_upload) THEN None
                                          ELSE Some([isoformat |-> Val(last_upload)]),
                            minutes_ago |-> minutes_since_upload ],
          health |-> [ is_active |-> is_active,
                       alert |-> ~is_active ] ]

\* derivation and result, lines 79-118
ImmichResult(us, usr, au, pynow) ==
    LET uploads_24h == us.last_24h
        upload_rate_per_hour == PyRound(FDiv(uploads_24h, HoursPerDay), 10)
        last_upload == us.last_upload
        minutes_since_upload ==
            IF IsNone(last_upload) THEN None
            ELSE Some(TruncDiv(pynow - Val(last_upload), SecondsPerMinute))
        is_active == /\ ~IsNone(minutes_since_upload)
                     /\ Val(minutes_since_upload) < ActiveMinutes
    IN  [ total_assets |-> us.total_assets,
          uploads |-> [ last_1h |-> us.last_1h,
                        last_24h |-> us.last_24h,
                        last_7d |-> us.last_7d,
                        last_30d |-> us.last_30d,
                        rate_per_hour |-> upload_rate_per_hour ],
          users |-> [ total |-> au.total_users,
                      admins |-> au.admin_users,
                      active_24h |-> usr.active_users_24h ],
          last_upload |-> [ timestamp |-> IF IsNone(last_upload) THEN None
                                          ELSE Some([isoformat |-> Val(last_upload)]),
                            minutes_ago |-> minutes_since_upload ],
          health |-> [ is_active |-> is_active,
                       alert |-> ~is_active ] ]

\* variant: the exception is not caught
ImmichExcept_Uncaught(e) == Raise(e)

\* except Exception as e, lines 120-121
ImmichExcept(e) == Return([error |-> e.msg])

DbErrors == [ connect |-> [type |-> "OperationalError", msg |-> "could not connect to server"],
              q1 |-> [type |-> "ProgrammingError", msg |-> "relation \"asset\" does not exist"],
              q2 |-> [type |-> "OperationalError", msg |-> "server closed the connection unexpectedly"],
              q3 |-> [type |-> "ProgrammingError", msg |-> "relation \"user\" does not exist"],
              derive |-> [type |-> "TypeError", msg |-> "unsupported operand type(s) for -"] ]

PyDelays == {0, 1}

----------------------------------------------------------------------------
(* The CDN provider *)

\* a JSON value that may be null is None or Some(value); truthiness of a
\* nullable list
TruthyList(x) == ~IsNone(x) /\ Len(Val(x)) > 0

TimeoutExc == [type |-> "Timeout", msg |-> "Read timed out. (read timeout=10)"]
ConnExc == [type |-> "ConnectionError", msg |-> "Max retries exceeded with url"]
JsonExc == [type |-> "JSONDecodeError", msg |-> "Expecting value: line 1 column 1 (char 0)"]
AttrExc == [type |-> "AttributeError", msg |-> "'NoneType' object has no attribute 'get'"]

Reply(code, body) == [kind |-> "response", status_code |-> code, body |-> body]
Unparsable == [parsable |-> FALSE]
Json(d) == [parsable |-> TRUE, json |-> d]

ZeroBucket == [sum |-> [requests |-> 0, bytes |-> 0, cachedBytes |-> 0,
                        cachedRequests |-> 0, threats |-> 0]]
BusyBucket == [sum |-> [requests |-> 4000, bytes |-> 161061274, cachedBytes |-> 1000,
                        cachedRequests |-> 1, threats |-> 2]]
BucketChoices == {ZeroBucket, BusyBucket}
GroupLists == UNION {[1..n -> BucketChoices] : n \in 1..MaxBuckets}

ZonesBody(zones) == [data |-> Some([viewer |-> [zones |-> zones]]), errors |-> None]

AnalyticsBodies ==
    { Unparsable,
      Json(<<>>),
      Json([errors |-> Some(<<"quota exceeded">>), data |-> None]),
      Json([errors |-> None, data |-> None]),
      Json(ZonesBody(<<>>)),
      Json(ZonesBody(<< <<>> >>)),
      Json(ZonesBody(<< [httpRequests1hGroups |-> <<>>] >>)),
      Json([errors |-> Some(<<"partial result">>),
            data |-> Some([viewer |-> [zones |-> << [httpRequests1hGroups |-> <<BusyBucket>>] >>]])]) }
    \cup { Json(ZonesBody(<< [httpRequests1hGroups |-> g] >>)) : g \in GroupLists }

PostReplies ==
    {Raise(TimeoutExc), Raise(ConnExc), Reply(403, Unparsable), Reply(404, Unparsable),
     Reply(500, Json(ZonesBody(<< [httpRequests1hGroups |-> <<BusyBucket>>] >>)))}
    \cup {Reply(200, b) : b \in AnalyticsBodies}

ZoneBodies ==
    { Unparsable,
      Json(<<>>),
      Json([result |-> None]),
      Json([result |-> Some([status |-> "active"])]),
      Json([result |-> Some([name |-> "example.org", status |-> "active",
                             plan |-> [name |-> "Free Website"]])]),
      Json([result |-> Some([name |-> "example.org", status |-> "paused",
                             plan |-> [name |-> "Free Website"]])]) }

ZoneReplies ==
    {Raise(TimeoutExc), Raise(ConnExc), Reply(500, Unparsable)}
    \cup {Reply(200, b) : b \in ZoneBodies}

DefaultCfg == [CF_API_KEY |-> "key", CF_ZONE_ID |-> "zone"]
CfgChoices == { DefaultCfg, [CF_API_KEY |-> "", CF_ZONE_ID |-> "zone"] }

\* bool(CF_API_KEY and CF_ZONE_ID), lines 175 and 281
Configured(c) == c.CF_API_KEY # "" /\ c.CF_ZONE_ID # ""

\* f'CloudFlare API returned {response.status_code}', line 174
StatusMessage(code) == "CloudFlare API returned " \o ToString(code)

\* lines 193-219
ZeroSummary ==
    [ zone |-> [name |-> "jepson.live", status |-> "unknown", plan |-> "unknown"],
      requests_24h |-> [total |-> 0, cached |-> 0, uncached |-> 0,
                        cache_hit_ratio |-> 0],
      bandwidth_24h |-> [total_bytes |-> 0, total_gb |-> 0, cached_bytes |-> 0],
      security_24h |-> [threats_blocked |-> 0],
      health |-> [zone_active |-> TRUE, alert |-> FALSE],
      configured |-> TRUE,
      note |-> "No analytics data available for the last 24 hours (free plan delay or low traffic)" ]

\* sum(group['sum'][k] for group in hourly_groups), lines 222-228
RECURSIVE SumField(_, _)
SumField(groups, k) ==
    IF Len(groups) = 0 THEN 0
    ELSE Head(groups).sum[k] + SumField(Tail(groups), k)

SumMetrics(groups) ==
    [ requests |-> SumField(groups, "requests"),
      bytes |-> SumField(groups, "bytes"),
      cachedRequests |-> SumField(groups, "cachedRequests"),
      cachedBytes |-> SumField(groups, "cachedBytes"),
      threats |-> SumField(groups, "threats") ]

Continue(m) == [kind |-> "continue", metrics |-> m]

\* `not zones or not zones[0].get('httpRequests1hGroups')`, line 186
NoAnalyticsData(zones) ==
    \/ Len(zones) = 0
    \/ ~HasKey(zones[1], "httpRequests1hGroups")
    \/ Len(zones[1].httpRequests1hGroups) = 0

\* variant: GraphQL errors are not checked
AnalyzeResponse_IgnoresErrors(response, c) ==
    IF response.status_code # 200
    THEN Return([error |-> StatusMessage(response.status_code),
                 configured |-> Configured(c)])
    ELSE IF ~response.body.parsable THEN Raise(JsonExc)
    ELSE LET d1 == DictGet(response.body.json, "data", Some(NoDict)) IN
    IF IsNone(d1) THEN Raise(AttrExc)
    ELSE LET zones == DictGet(DictGet(Val(d1), "viewer", NoDict), "zones", <<>>) IN
    IF NoAnalyticsData(zones)
    THEN Return([error |-> "No analytics data available", configured |-> TRUE])
    ELSE Continue(SumMetrics(zones[1].httpRequests1hGroups))

\* from the analytics response to the zone-info call, lines 172-228
AnalyzeResponse(response, c) ==
    IF response.status_code # 200
    THEN Return([error |-> StatusMessage(response.status_code),
                 configured |-> Configured(c)])
    ELSE IF ~response.body.parsable THEN Raise(JsonExc)
    ELSE LET data == response.body.json IN
    IF HasKey(data, "errors") /\ TruthyList(data.errors)
    THEN Return([error |-> "CloudFlare GraphQL errors", details |-> Val(data.errors)])
    ELSE LET d1 == DictGet(data, "data", Some(NoDict)) IN
    IF IsNone(d1) THEN Raise(AttrExc)
    ELSE LET zones == DictGet(DictGet(Val(d1), "viewer", NoDict), "zones", <<>>) IN
    IF NoAnalyticsData(zones)
    THEN Return([error |-> "No analytics data available", configured |-> TRUE])
    ELSE LET hourly_groups == zones[1].httpRequests1hGroups IN
    IF Len(hourly_groups) = 0 THEN Return(ZeroSummary)
    ELSE Continue(SumMetrics(hourly_groups))

\* variant: the body is parsed whatever the status
ZoneInfo_AlwaysParses(zone_response) ==
    IF ~zone_response.body.parsable THEN Raise(JsonExc)
    ELSE Return(DictGet(zone_response.body.json, "result", Some(NoDict)))

\* zone_data / zone_info, lines 233-234: a value or the exception raised
ZoneInfo(zone_response) ==
    IF zone_response.status_code # 200 THEN Return(Some(NoDict))
    ELSE IF ~zone_response.body.parsable THEN Raise(JsonExc)
    ELSE Return(DictGet(zone_response.body.json, "result", Some(NoDict)))

\* variant: a missing status counts as active
StatusIs_DefaultActive(zone_info, v) == DictGet(zone_info, "status", "active") = v

\* zone_info.get('status') == v, lines 272-273
StatusIs(zone_info, v) == HasKey(zone_info, "status") /\ zone_info.status = v

\* derived metrics and the full summary, lines 236-276
FullSummary(m, zone_info) ==
    LET requests_all == m.requests
        requests_cached == m.cachedRequests
        requests_uncached == requests_all - requests_cached
        cache_hit_ratio == IF requests_all > 0
                           THEN PyRound(FMulSmall(FDiv(requests_cached, requests_all),
                                                  Percent), 100)
                           ELSE 0
        bandwidth_all == m.bytes
        bandwidth_cached == m.cachedBytes
        bandwidth_gb == PyRound(FDiv(bandwidth_all, GiB), 100)
        threats_all == m.threats
        status == DictGet(zone_info, "status", "unknown")
    IN  [ zone |-> [ name |-> DictGet(zone_info, "name", "jepson.live"),
                     status |-> status,
                     plan |-> DictGet(DictGet(zone_info, "plan", NoDict),
                                      "name", "unknown") ],
          requests_24h |-> [ total |-> requests_all,
                             cached |-> requests_cached,
                             uncached |-> requests_uncached,
                             cache_hit_ratio |-> cache_hit_ratio ],
          bandwidth_24h |-> [ total_bytes |-> bandwidth_all,
                              total_gb |-> bandwidth_gb,
                              cached_bytes |-> bandwidth_cached ],
          security_24h |-> [ threats_blocked |-> threats_all ],
          health |-> [ zone_active |-> StatusIs(zone_info, "active"),
                       alert |-> ~StatusIs(zone_info, "active") ],
          configured |-> TRUE ]

\* lines 232-276 once the zone-info call has answered
AfterZoneReply(m, zone_response) ==
    LET zi == ZoneInfo(zone_response) IN
    IF zi.kind = "raise" THEN zi
    ELSE IF IsNone(zi.value) THEN Raise(AttrExc)
    ELSE Return(FullSummary(m, Val(zi.value)))

\* variant: no separate clause for timeouts
CloudflareExcept_NoTimeoutClause(e, c) ==
    Return([error |-> e.msg, configured |-> Configured(c)])

\* except clauses, lines 278-281
CloudflareExcept(e, c) ==
    IF e.type = "Timeout"
    THEN Return([error |-> "CloudFlare API timeout", configured |-> TRUE])
    ELSE Return([error |-> e.msg, configured |-> Configured(c)])

----------------------------------------------------------------------------
(* The HTTP surface and the state machine *)

Routes == {"health", "immich", "cloudflare", "all"}
NoResponse == [status_code |-> 0]
ImmichSteps == {"im_connect", "im_q1", "im_q2", "im_q3", "im_derive"}
NoRow == <<>>

\* jsonify of a route whose view function returned v or raised
Jsonify(out) ==
    IF out.kind = "return" THEN [status_code |-> 200, body |-> out.value]
    ELSE [status_code |-> 500]

\* the four view functions, lines 284-312
RouteResponse(r, imOut, cOut) ==
    CASE r = "health" -> Jsonify(Return([status |-> "healthy"]))
      [] r = "immich" -> Jsonify(imOut)
      [] r = "cloudflare" -> Jsonify(cOut)
      [] r = "all" ->
            IF imOut.kind = "return" /\ cOut.kind = "return"
            THEN Jsonify(Return([ timestamp |-> [isoformat |-> NowT],
                                  immich |-> imOut.value,
                                  cloudflare |-> cOut.value ]))
            ELSE [status_code |-> 500]

\* where the view function goes once get_immich_metrics has finished
AfterImmich(r, out) ==
    IF out.kind = "return" /\ r = "all" THEN "cf_post" ELSE "respond"

Init ==
    /\ pc = "idle"
    /\ route = "none"
    /\ assets \in InitialTables
    /\ users \in UserTables
    /\ cfg \in CfgChoices
    /\ openConns = 0
    /\ seen1 = EmptyTable
    /\ seen2 = EmptyTable
    /\ upload_stats = NoRow
    /\ user_stats = NoRow
    /\ all_users = NoRow
    /\ pyNow = None
    /\ immichOut = Pending
    /\ postReply = Pending
    /\ zoneReply = Pending
    /\ metrics = NoRow
    /\ postCalls = 0
    /\ getCalls = 0
    /\ cfOut = Pending
    /\ httpResponse = NoResponse

dbVars == <<assets, users>>
imLocals == <<seen1, seen2, upload_stats, user_stats, all_users, pyNow, immichOut>>
cfLocals == <<postReply, zoneReply, metrics, postCalls, getCalls, cfOut>>

\* a request arrives; the locals of the previous request are gone
Request(r) ==
    /\ pc \in {"idle", "done"}
    /\ route' = r
    /\ pc' = CASE r = "health" -> "respond"
               [] r = "cloudflare" -> "cf_post"
               [] OTHER -> "im_connect"
    /\ seen1' = EmptyTable /\ seen2' = EmptyTable
    /\ upload_stats' = NoRow /\ user_stats' = NoRow /\ all_users' = NoRow
    /\ pyNow' = None /\ immichOut' = Pending
    /\ postReply' = Pending /\ zoneReply' = Pending /\ metrics' = NoRow
    /\ postCalls' = 0 /\ getCalls' = 0 /\ cfOut' = Pending
    /\ httpResponse' = NoResponse
    /\ UNCHANGED <<assets, users, cfg, openConns>>

\* other database clients write the asset table at any moment of a
\* request to the photo service, and before the first request
WriterSteps == ImmichSteps \cup {"idle"}

InsertAsset(r) ==
    /\ pc \in WriterSteps
    /\ IsNone(r.deletedAt)
    /\ TableSize(assets) < MaxAssets
    /\ assets' = [assets EXCEPT ![r] = @ + 1]
    /\ UNCHANGED <<pc, route, users, cfg, openConns, httpResponse>>
    /\ UNCHANGED imLocals /\ UNCHANGED cfLocals

SoftDelete(r) ==
    /\ pc \in WriterSteps
    /\ IsNone(r.deletedAt)
    /\ assets[r] > 0
    /\ LET d == [r EXCEPT !.deletedAt = Some(DeleteTime)]
       IN  assets' = [assets EXCEPT ![r] = @ - 1, ![d] = @ + 1]
    /\ UNCHANGED <<pc, route, users, cfg, openConns, httpResponse>>
    /\ UNCHANGED imLocals /\ UNCHANGED cfLocals

\* conn = get_db_connection(); cur = conn.cursor(), lines 43-44
ImConnect ==
    /\ pc = "im_connect"
    /\ openConns' = openConns + 1
    /\ pc' = "im_q1"
    /\ UNCHANGED <<route, cfg, httpResponse>>
    /\ UNCHANGED dbVars /\ UNCHANGED imLocals /\ UNCHANGED cfLocals

\* cur.execute / cur.fetchone, lines 47-58
ImQuery1 ==
    /\ pc = "im_q1"
    /\ seen1' = assets
    /\ upload_stats' = Query1(assets, NowT)
    /\ pc' = "im_q2"
    /\ UNCHANGED <<route, cfg, openConns, httpResponse, seen2, user_stats,
                   all_users, pyNow, immichOut>>
    /\ UNCHANGED dbVars /\ UNCHANGED cfLocals

\* lines 61-68
ImQuery2 ==
    /\ pc = "im_q2"
    /\ seen2' = assets
    /\ user_stats' = Query2(assets, NowT)
    /\ pc' = "im_q3"
    /\ UNCHANGED <<route, cfg, openConns, httpResponse, seen1, upload_stats,
                   all_users, pyNow, immichOut>>
    /\ UNCHANGED dbVars /\ UNCHANGED cfLocals

\* lines 71-77
ImQuery3 ==
    /\ pc = "im_q3"
    /\ all_users' = Query3(users)
    /\ pc' = "im_derive"
    /\ UNCHANGED <<route, cfg, openConns, httpResponse, seen1, seen2,
                   upload_stats, user_stats, pyNow, immichOut>>
    /\ UNCHANGED dbVars /\ UNCHANGED cfLocals

\* derivation, cur.close(), conn.close() and the return, lines 79-118
ImFinish ==
    /\ pc = "im_derive"
    /\ \E d \in PyDelays :
          /\ pyNow' = Some(NowT + d)
          /\ immichOut' = Return(ImmichResult(upload_stats, user_stats,
                                              all_users, NowT + d))
    /\ openConns' = openConns - 1
    /\ pc' = AfterImmich(route, immichOut')
    /\ UNCHANGED <<route, cfg, httpResponse, seen1, seen2, upload_stats,
                   user_stats, all_users>>
    /\ UNCHANGED dbVars /\ UNCHANGED cfLocals

\* the open connections once the except clause has returned, lines 120-121,
\* after an exception at the given step with n connections open.  The
\* clause never calls conn.close(); once get_db_connection has returned,
\* the locals conn and cur hold the only references to the connection, the
\* return drops them with the frame, and CPython's reference counting deallocates the psycopg2
\* connection at once, which closes it.  When get_db_connection itself
\* raised there is no connection.
ConnsAfterRaise_NeverReleased(step, n) == n
ConnsAfterRaise(step, n) == IF step = "connect" THEN n ELSE n - 1

\* an exception anywhere inside the try block, lines 42-121: control goes
\* to the except clause, which returns the error object
ImRaise ==
    /\ pc \in ImmichSteps
    /\ LET step == CASE pc = "im_connect" -> "connect"
                     [] pc = "im_q1" -> "q1"
                     [] pc = "im_q2" -> "q2"
                     [] pc = "im_q3" -> "q3"
                     [] OTHER -> "derive"
       IN  /\ immichOut' = ImmichExcept(DbErrors[step])
           /\ openConns' = ConnsAfterRaise(step, openConns)
    /\ pc' = AfterImmich(route, immichOut')
    /\ UNCHANGED <<route, cfg, httpResponse, seen1, seen2,
                   upload_stats, user_stats, all_users, pyNow>>
    /\ UNCHANGED dbVars /\ UNCHANGED cfLocals

\* the outcome of the code after an exception e inside the CDN try block
CfCaught(out, c) == IF out.kind = "raise" THEN CloudflareExcept(out.exc, c) ELSE out

\* requests.post(graphql_url, ..., timeout=10), line 170
CfPost ==
    /\ pc = "cf_post"
    /\ \E r \in PostReplies : postReply' = r
    /\ postCalls' = postCalls + 1
    /\ pc' = "cf_analyze"
    /\ UNCHANGED <<route, cfg, openConns, httpResponse, zoneReply, metrics,
                   getCalls, cfOut>>
    /\ UNCHANGED dbVars /\ UNCHANGED imLocals

\* lines 172-228, or the except clauses when the POST raised
CfAnalyze ==
    /\ pc = "cf_analyze"
    /\ LET a == IF postReply.kind = "raise" THEN postReply
                ELSE AnalyzeResponse(postReply, cfg)
       IN  IF a.kind = "continue"
           THEN /\ metrics' = a.metrics
                /\ pc' = "cf_zone"
                /\ UNCHANGED cfOut
           ELSE /\ cfOut' = CfCaught(a, cfg)
                /\ pc' = "respond"
                /\ UNCHANGED metrics
    /\ UNCHANGED <<route, cfg, openConns, httpResponse, postReply, zoneReply,
                   postCalls, getCalls>>
    /\ UNCHANGED dbVars /\ UNCHANGED imLocals

\* requests.get(zone_url, ..., timeout=10) and the rest, lines 230-281
CfGetZone ==
    /\ pc = "cf_zone"
    /\ \E z \in ZoneReplies :
          /\ zoneReply' = z
          /\ cfOut' = CfCaught(IF z.kind = "raise" THEN z
                               ELSE AfterZoneReply(metrics, z), cfg)
    /\ getCalls' = getCalls + 1
    /\ pc' = "respond"
    /\ UNCHANGED <<route, cfg, openConns, httpResponse, postReply, metrics,
                   postCalls>>
    /\ UNCHANGED dbVars /\ UNCHANGED imLocals

\* return jsonify(...)
Respond ==
    /\ pc = "respond"
    /\ httpResponse' = RouteResponse(route, immichOut, cfOut)
    /\ pc' = "done"
    /\ UNCHANGED <<route, cfg, openConns>>
    /\ UNCHANGED dbVars /\ UNCHANGED imLocals /\ UNCHANGED cfLocals

\* the whole service, with a database no other client writes to
Next ==
    \/ \E r \in Routes : Request(r)
    \/ ImConnect
    \/ ImQuery1
    \/ ImQuery2
    \/ ImQuery3
    \/ ImFinish
    \/ ImRaise
    \/ CfPost
    \/ CfAnalyze
    \/ CfGetZone
    \/ Respond

Spec == Init /\ [][Next]_vars

\* the upload-metrics route, with other clients writing to the database
NextImmich ==
    \/ Request("immich")
    \/ \E r \in AssetRows : InsertAsset(r)
    \/ \E r \in AssetRows : SoftDelete(r)
    \/ ImConnect
    \/ ImQuery1
    \/ ImQuery2
    \/ ImQuery3
    \/ ImFinish
    \/ ImRaise
    \/ Respond

\* the CDN credentials play no part in this route
InitImmich == Init /\ cfg = DefaultCfg

SpecImmich == InitImmich /\ [][NextImmich]_vars

\* the CDN-metrics route
NextCloudflare ==
    \/ Request("cloudflare")
    \/ CfPost
    \/ CfAnalyze
    \/ CfGetZone
    \/ Respond

SpecCloudflare == Init /\ [][NextCloudflare]_vars

----------------------------------------------------------------------------
(* get_cloudflare_metrics as a function of the two replies, lines 124-281 *)

get_cloudflare_metrics(p, z, c) ==
    CfCaught(IF p.kind = "raise" THEN p
             ELSE LET a == AnalyzeResponse(p, c)
                  IN  IF a.kind # "continue" THEN a
                      ELSE IF z.kind = "raise" THEN z
                      ELSE AfterZoneReply(a.metrics, z), c)

----------------------------------------------------------------------------
(* Properties *)

ImmichReturned == immichOut.kind = "return"
ImmichSucceeded == ImmichReturned /\ ~HasKey(immichOut.value, "error")
CfReturned == cfOut.kind = "return"
CfFinished == cfOut.kind # "pending"

AllDone == pc = "done" /\ route = "all"

\* C1: a request to the combined route always completes with status 200
\* and a body holding both sub-objects; the immich sub-object is an error
\* object exactly when the upload aggregator failed and otherwise its
\* result, and the cloudflare sub-object is what the CDN aggregator yields
\* from its own replies, whatever happened to the other aggregator.
C1_CombinedRouteDegradesGracefully ==
    AllDone =>
        /\ httpResponse.status_code = 200
        /\ {"immich", "cloudflare"} \subseteq DOMAIN httpResponse.body
        /\ LET im == httpResponse.body.immich
               cf == httpResponse.body.cloudflare
           IN  /\ IF IsNone(pyNow)
                  THEN im \in {[error |-> DbErrors[k].msg] : k \in DOMAIN DbErrors}
                  ELSE im = ImmichResult(Query1(seen1, NowT), Query2(seen2, NowT),
                                         Query3(users), Val(pyNow))
               /\ postCalls = 1
               /\ cf = get_cloudflare_metrics(postReply, zoneReply, cfg).value

C1_Witness ==
    /\ AllDone
    /\ httpResponse.status_code = 200
    /\ HasKey(httpResponse.body.immich, "error")
    /\ ~HasKey(httpResponse.body.cloudflare, "error")
    /\ httpResponse.body.cloudflare.requests_24h.total > 0

\* the analytics reply has status 200, no GraphQL errors and a zone whose
\* hourly-groups field is present and empty
EmptyGroupsReply(p) ==
    /\ p.kind = "response"
    /\ p.status_code = 200
    /\ p.body.parsable
    /\ ~(HasKey(p.body.json, "errors") /\ TruthyList(p.body.json.errors))
    /\ HasKey(p.body.json, "data")
    /\ ~IsNone(p.body.json.data)
    /\ LET zones == Val(p.body.json.data).viewer.zones
       IN  /\ Len(zones) > 0
           /\ HasKey(zones[1], "httpRequests1hGroups")
           /\ Len(zones[1].httpRequests1hGroups) = 0

\* C2: with an empty hourly-groups list the CDN aggregator returns the
\* zero-valued summary (counts and ratios 0, configured, a note) and no
\* 'error' key.
C2_EmptyGroupsGiveZeroSummary ==
    (CfFinished /\ EmptyGroupsReply(postReply)) =>
        /\ CfReturned
        /\ ~HasKey(cfOut.value, "error")
        /\ HasKey(cfOut.value, "note")
        /\ cfOut.value.configured = TRUE
        /\ cfOut.value.requests_24h = [total |-> 0, cached |-> 0, uncached |-> 0,
                                       cache_hit_ratio |-> 0]
        /\ cfOut.value.bandwidth_24h = [total_bytes |-> 0, total_gb |-> 0,
                                        cached_bytes |-> 0]
        /\ cfOut.value.security_24h.threats_blocked = 0

\* C3: no database connection is open once get_immich_metrics has returned,
\* on the success path and after an exception alike, whatever the number of
\* invocations before; during an invocation at most one is open.
C3_ConnectionClosedOnReturn ==
    /\ pc \notin ImmichSteps => openConns = 0
    /\ openConns <= 1

\* a query raised after the connection was opened, and the aggregator has
\* returned its error object
C3_Witness ==
    /\ pc = "respond"
    /\ immichOut = ImmichExcept(DbErrors["q2"])
    /\ openConns = 0

ZoneCallFailed(z) ==
    \/ z.kind = "raise"
    \/ z.kind = "response" /\ (z.status_code # 200 \/ ~z.body.parsable)

SumsOf(m, v) ==
    /\ v.requests_24h.total = m.requests
    /\ v.requests_24h.cached = m.cachedRequests
    /\ v.bandwidth_24h.total_bytes = m.bytes
    /\ v.bandwidth_24h.cached_bytes = m.cachedBytes
    /\ v.security_24h.threats_blocked = m.threats

\* C4 as stated: whenever the zone-info call fails in any way the full
\* summary is returned with name, status and plan "unknown" and no 'error'.
C4_AnyZoneFailureTolerated ==
    (CfFinished /\ getCalls = 1 /\ ZoneCallFailed(zoneReply)) =>
        /\ CfReturned
        /\ ~HasKey(cfOut.value, "error")
        /\ cfOut.value.zone = [name |-> "unknown", status |-> "unknown",
                               plan |-> "unknown"]
        /\ SumsOf(metrics, cfOut.value)

TimeoutError == [error |-> "CloudFlare API timeout", configured |-> TRUE]

\* C4 amended: a zone-info reply with a non-200 status yields the full
\* summary with the bucket sums, status and plan "unknown" and the built-in
\* name "jepson.live", without 'error'; a zone-info call that times out
\* yields the timeout error object, and one that raises otherwise or
\* answers 200 with an unparsable body yields an error object.
C4_ZoneFailureHandling ==
    (CfFinished /\ getCalls = 1 /\ ZoneCallFailed(zoneReply)) =>
        /\ CfReturned
        /\ IF zoneReply.kind = "response" /\ zoneReply.status_code # 200
           THEN /\ ~HasKey(cfOut.value, "error")
                /\ cfOut.value.zone = [name |-> "jepson.live", status |-> "unknown",
                                       plan |-> "unknown"]
                /\ SumsOf(metrics, cfOut.value)
           ELSE IF zoneReply.kind = "raise" /\ zoneReply.exc.type = "Timeout"
           THEN cfOut.value = TimeoutError
           ELSE /\ HasKey(cfOut.value, "error")
                /\ cfOut.value.error # TimeoutError.error

C4_Witness ==
    /\ CfReturned /\ getCalls = 1
    /\ zoneReply.kind = "response" /\ zoneReply.status_code # 200
    /\ ~HasKey(cfOut.value, "error")
    /\ cfOut.value.requests_24h.total > 0
    /\ cfOut.value.zone.status = "unknown"

TimedOut(reply) == reply.kind = "raise" /\ reply.exc.type = "Timeout"

\* C5: the CDN aggregator returns exactly the timeout error object when
\* one of its outbound calls timed out, and in no other case.
C5_TimeoutIsDistinct ==
    CfFinished =>
        /\ CfReturned
        /\ (TimedOut(postReply) \/ TimedOut(zoneReply))
              <=> (DOMAIN cfOut.value = DOMAIN TimeoutError
                     /\ cfOut.value.error = TimeoutError.error
                     /\ cfOut.value.configured = TRUE)

C5_Witness ==
    /\ CfReturned /\ getCalls = 1
    /\ TimedOut(zoneReply)
    /\ DOMAIN cfOut.value = {"error", "configured"}
    /\ cfOut.value.error = "CloudFlare API timeout"

NoLiveAsset(t) == \A r \in LiveRows : t[r] = 0

\* C6: in a non-error result is_active holds iff minutes_ago is non-null
\* and below 120, alert is its negation, and without a live asset the
\* timestamp and minutes_ago are null and is_active is false.
C6_HealthFollowsRecency ==
    ImmichSucceeded =>
        LET v == immichOut.value IN
        /\ v.health.is_active <=> (/\ ~IsNone(v.last_upload.minutes_ago)
                                   /\ Val(v.last_upload.minutes_ago) < ActiveMinutes)
        /\ v.health.alert <=> ~v.health.is_active
        /\ NoLiveAsset(seen1) => /\ IsNone(v.last_upload.timestamp)
                                 /\ IsNone(v.last_upload.minutes_ago)
                                 /\ ~v.health.is_active

C6_Witness ==
    /\ ImmichSucceeded
    /\ immichOut.value.last_upload.minutes_ago = Some(ActiveMinutes)
    /\ immichOut.value.health.alert

\* live rows created in [now - 24h, now]
LiveInLastDay(t, now) ==
    CountRows(t, {r \in LiveRows : r.createdAt >= now - OneDay /\ r.createdAt <= now})

\* C7: uploads.last_24h is at most the number of live assets created in
\* [now - 24h, now].
C7_Last24hBounded ==
    ImmichSucceeded =>
        immichOut.value.uploads.last_24h <= LiveInLastDay(seen1, NowT)

\* C8: when the result has a health sub-object, zone_active holds iff
\* zone.status is "active", and alert is its negation.
C8_ZoneHealthFollowsStatus ==
    (CfReturned /\ HasKey(cfOut.value, "health")) =>
        /\ cfOut.value.health.zone_active <=> cfOut.value.zone.status = "active"
        /\ cfOut.value.health.alert <=> ~cfOut.value.health.zone_active

C8_Witness ==
    /\ CfReturned /\ HasKey(cfOut.value, "health")
    /\ cfOut.value.zone.status = "paused"
    /\ cfOut.value.health.alert

\* the analytics reply lets the aggregator go on to the zone-info call
AnalyticsUsable(p) ==
    /\ p.kind = "response"
    /\ p.status_code = 200
    /\ p.body.parsable
    /\ ~(HasKey(p.body.json, "errors") /\ TruthyList(p.body.json.errors))
    /\ HasKey(p.body.json, "data")
    /\ ~IsNone(p.body.json.data)
    /\ LET zones == Val(p.body.json.data).viewer.zones
       IN  /\ Len(zones) > 0
           /\ HasKey(zones[1], "httpRequests1hGroups")
           /\ Len(zones[1].httpRequests1hGroups) > 0

\* C9: one invocation issues the analytics POST exactly once and the
\* zone-info GET at most once, the GET only after a usable analytics reply
\* (status 200, no GraphQL errors, a zone with a non-empty bucket list).
C9_CallsSequentialAndSingle ==
    /\ postCalls <= 1
    /\ getCalls <= 1
    /\ CfFinished => postCalls = 1
    /\ (getCalls = 1 \/ pc = "cf_zone") => postCalls = 1 /\ AnalyticsUsable(postReply)

C9_Witness ==
    /\ CfFinished
    /\ postCalls = 1
    /\ getCalls = 1

\* C10 as stated: active_24h never exceeds last_24h, whatever other clients
\* do between the two queries.
C10_ActiveUsersBounded ==
    ImmichSucceeded =>
        immichOut.value.users.active_24h <= immichOut.value.uploads.last_24h

\* every live row the second query saw was already there for the first
NoInsertBetweenQueries == \A r \in LiveRows : seen2[r] <= seen1[r]

\* C10 amended: active_24h is at most last_24h provided no asset record is
\* inserted between the first and the second query (soft-deletes between
\* them are harmless).
C10_ActiveUsersBoundedWithoutInserts ==
    (ImmichSucceeded /\ NoInsertBetweenQueries) =>
        immichOut.value.users.active_24h <= immichOut.value.uploads.last_24h

C10_Witness ==
    /\ ImmichSucceeded
    /\ NoInsertBetweenQueries
    /\ seen1 # seen2
    /\ immichOut.value.users.active_24h >= 1

====
